---- MODULE Spec2Model ----
(***************************************************************************)
(* Reynir reducer (src/reducer.py): reduction of a parse forest to one     *)
(* parse tree.  Three passes: OptionFinder (terminals matching each        *)
(* token), _calc_terminal_scores (a score per position and terminal) and   *)
(* ParseForestReducer (bottom-up, keeps one family per nonterminal node).  *)
(*                                                                         *)
(* Icelandic names are written in ASCII: thf = þf, thgf = þgf, tol = töl,  *)
(* sernafn = sérnafn, vid = við.                                           *)
(***************************************************************************)
EXTENDS Integers, Sequences, FiniteSets, TLC

VARIABLES
    forest,     \* the argument of go_with_score: root, span, nodes, tokens (never assigned)
    families,   \* node id -> the node's current _families list (mutated by reduce_to)
    finals,     \* position -> set of terminals (defaultdict(set) of _calc_terminal_scores)
    tokens,     \* position -> token
    scores,     \* position -> [keys: the dict's key order, sc: terminal -> score]
    i,          \* loop variable of _calc_terminal_scores
    stack,      \* the call stack of the navigator's recursive helper
    visited,    \* the navigator's memo: node id -> result
    result,     \* what go_with_score returned: [tree, score]
    pc,         \* "start", "score", "reduce", "done", "failed"
    cache,      \* the lru_cache of BIN_Db.meanings: entries [w, val], least recently used first
    calls,      \* number of calls made to BIN_Db so far
    seen,       \* arguments of lookup_word -> what its first call with them returned
    last_call   \* the last call of lookup_word: its arguments and what it returned

\* The variables of the reducer and those of the BIN database access
rvars == <<forest, families, finals, tokens, scores, i, stack, visited, result, pc>>
bvars == <<cache, calls, seen, last_call>>
vars == <<rvars, bvars>>

(***************************************************************************)
(* Bounds of the model                                                     *)
(***************************************************************************)
MaxFam == 2      \* families per nonterminal node of a generated forest
TotalFam == 3    \* families of the two nonterminal nodes of a generated forest together
MaxCand == 2     \* candidate terminals at the scored position of a flat forest

(***************************************************************************)
(* Python values                                                           *)
(***************************************************************************)
\* None as a node reference: the absent forest, and the epsilon child
None == 0
\* ReductionInfo.nt is None (node not completed)
NoneNt == "None"
\* ReductionInfo.highest_prio is None
NonePrio == -1

Min(S) == CHOOSE x \in S : \A y \in S : x <= y
Max(S) == CHOOSE x \in S : \A y \in S : x >= y

\* All orders in which the elements of a set can be iterated
RECURSIVE Orders(_)
Orders(S) ==
    IF S = {} THEN {<<>>}
    ELSE UNION {{<<x>> \o o : o \in Orders(S \ {x})} : x \in S}

(***************************************************************************)
(* grammar.Terminal: name, first part of the name, variants                *)
(***************************************************************************)
\* name0 is name[0], the first character of the name
Terminal(name, name0, first, vparts) ==
    [name |-> name, name0 |-> name0, first |-> first, vparts |-> vparts]

has_variant(t, v) == \E k \in 1..Len(t.vparts) : t.vparts[k] = v
variant(t, index) == t.vparts[index + 1]
is_singular(t) == has_variant(t, "et")
is_plural(t) == has_variant(t, "ft")
is_abbrev(t) == has_variant(t, "abbrev")
is_nh(t) == has_variant(t, "nh")
is_mm(t) == has_variant(t, "mm")
is_subj(t) == has_variant(t, "subj")
is_sagnb(t) == has_variant(t, "sagnb")
is_lh(t) == has_variant(t, "lh")
is_vh(t) == has_variant(t, "vh")
\* name[0] in "\"'"
is_literal(t) == t.name0 \in {"\"", "'"}
\* int(t.variant(0)) for a variant in "012"
int(v) == CASE v = "0" -> 0 [] v = "1" -> 1 [] v = "2" -> 2
\* the case variants that follow the argument count of a verb terminal
verb_cases(t) == SubSeq(t.vparts, 2, 1 + int(variant(t, 0)))

(***************************************************************************)
(* The terminals of the modelled grammar                                   *)
(***************************************************************************)
T_ao == Terminal("ao", "a", "ao", <<>>)
T_no_et == Terminal("no_et", "n", "no", <<"et">>)
T_no_ft_ef == Terminal("no_ft_ef", "n", "no", <<"ft", "ef">>)
T_fs_thgf == Terminal("fs_thgf", "f", "fs", <<"thgf">>)
T_fs_nf == Terminal("fs_nf", "f", "fs", <<"nf">>)
T_so_0_nh == Terminal("so_0_nh", "s", "so", <<"0", "nh">>)
T_so_1_thf_nh == Terminal("so_1_thf_nh", "s", "so", <<"1", "thf", "nh">>)
T_so_1_thf_sagnb == Terminal("so_1_thf_sagnb", "s", "so", <<"1", "thf", "sagnb">>)
T_so_lh_vb == Terminal("so_lh_vb", "s", "so", <<"lh", "vb">>)
T_tala == Terminal("tala", "t", "tala", <<>>)
T_tol_ef == Terminal("tol_ef", "t", "tol", <<"ef">>)
T_sernafn == Terminal("sernafn", "s", "sernafn", <<>>)
T_lit == Terminal("'sem'", "'", "'sem'", <<>>)
T_nhm == Terminal("nhm", "n", "nhm", <<>>)
T_nhm_x == Terminal("nhm_x", "n", "nhm", <<"x">>)

\* Terminals offered at the scored position of a flat forest, in a fixed order
RichTerms ==
    <<T_ao, T_no_et, T_no_ft_ef, T_fs_thgf, T_fs_nf, T_so_0_nh, T_so_1_thf_nh,
      T_so_1_thf_sagnb, T_so_lh_vb, T_tala, T_tol_ef, T_sernafn, T_lit>>

(***************************************************************************)
(* Tokens: lower-case text and the list t2 of BIN meanings                 *)
(***************************************************************************)
Meaning(ordfl, stofn, beyging) == [ordfl |-> ordfl, stofn |-> stofn, beyging |-> beyging]
Token(lower, t2) == [lower |-> lower, t2 |-> t2]

Tok_ad == Token("ad", <<>>)
Tok_vid == Token("vid", <<Meaning("so", "bua", <<"GM">>), Meaning("so", "fara", <<"GM">>)>>)
Tok_sem == Token("sem", <<>>)
Tok_ekki == Token("ekki", <<Meaning("no", "ekki", <<"NF">>), Meaning("so", "vera", <<"MM">>)>>)
Tok_x == Token("x", <<Meaning("so", "taka", <<"GM">>), Meaning("so", "fara", <<"GM">>),
                     Meaning("so", "bua", <<"GM">>)>>)
Tokens1 == {Tok_vid, Tok_sem, Tok_ekki, Tok_x}

(***************************************************************************)
(* settings.Preferences, settings.VerbObjects, grammar._nt_scores          *)
(***************************************************************************)
Pref(worse, better, factor) == [worse |-> worse, better |-> better, factor |-> factor]
PreferencesDICT ==
    [w \in {"ekki", "sem"} |->
        IF w = "ekki"
        THEN <<Pref({"no"}, {"ao"}, 1), Pref({"no", "so"}, {"ao", "'sem'"}, 2)>>
        ELSE <<Pref({"fs", "ao"}, {"'sem'"}, 1), Pref({"fs"}, {"fs", "ao"}, 1)>>]
\* Preferences.get(txt): the list of (worse, better, factor), None as the empty list
PreferencesGet(txt) ==
    IF txt \in DOMAIN PreferencesDICT THEN PreferencesDICT[txt] ELSE <<>>

\* VerbObjects.VERBS[0]: the verbs that take no argument
VERBS0 == {"fara"}
\* VerbObjects.SCORES: stem and case signature -> score
SCORES ==
    [k \in {<<"bua", <<"thf">>>>, <<"fara", <<"thf">>>>} |->
        IF k[1] = "bua" THEN 1 ELSE 3]

\* grammar._nt_scores: the $score pragma of a nonterminal
nt_scores == [n \in {"A"} |-> 5]
score_adj_get(nt) == IF nt \in DOMAIN nt_scores THEN nt_scores[nt] ELSE 0

(***************************************************************************)
(* Reducer._calc_terminal_scores, one iteration of its loop over positions *)
(***************************************************************************)
Positions == {0, 1}

Range(f) == {f[k] : k \in DOMAIN f}

\* scores[i] = { terminal: 0 for terminal in s }; ord is the order in which s iterates
InitScores(ord) == [keys |-> ord, sc |-> [t \in Range(ord) |-> 0]]

\* The (triple, wt, bt) combinations that the preference loops reach
PrefMatches(s, prefs) ==
    {m \in (1..Len(prefs)) \X s \X s :
        /\ m[2] # m[3]
        /\ m[2].first \in prefs[m[1]].worse
        /\ m[3].first \in prefs[m[1]].better}

\* adj_worse[wt] after the loops (a defaultdict(int): starts at 0, accumulates by min)
adj_worse(s, prefs, wt) ==
    Min({0} \cup {-2 * prefs[m[1]].factor : m \in {x \in PrefMatches(s, prefs) : x[2] = wt}})

\* adj_better[bt] after the loops (starts at 0, accumulates by max)
adj_better(s, prefs, bt) ==
    Max({0} \cup {(IF is_literal(bt) THEN 6 ELSE 4) * prefs[m[1]].factor :
                    m \in {x \in PrefMatches(s, prefs) : x[3] = bt}})

\* The preference adjustments looked up whether or not the candidates share a category
apply_preferences_always(s, txt, sc) ==
    LET prefs == PreferencesGet(txt)
    IN  [t \in s |-> sc[t] + adj_worse(s, prefs, t) + adj_better(s, prefs, t)]

\* The preference adjustments of one position, added to the scores sc
apply_preferences(s, txt, sc) ==
    LET same_first == Cardinality({t.first : t \in s}) = 1
        prefs == IF same_first THEN <<>> ELSE PreferencesGet(txt)
    IN  [t \in s |-> sc[t] + adj_worse(s, prefs, t) + adj_better(s, prefs, t)]

\* adjmax: the score of the first verb meaning that has an entry in VerbObjects.SCORES
verb_case_score(t, tok) ==
    LET hits == {k \in 1..Len(tok.t2) :
                    /\ tok.t2[k].ordfl = "so"
                    /\ <<tok.t2[k].stofn, verb_cases(t)>> \in DOMAIN SCORES}
    IN  IF hits = {} THEN 0 ELSE SCORES[<<tok.t2[Min(hits)].stofn, verb_cases(t)>>]

\* adj + adjmax for a verb terminal with an argument count
verb_args_score(t, tok) ==
    LET numcases == int(variant(t, 0))
        no_zero_arg_meaning ==
            \A k \in 1..Len(tok.t2) :
                tok.t2[k].ordfl = "so" =>
                    /\ tok.t2[k].stofn \notin VERBS0
                    /\ "MM" \notin Range(tok.t2[k].beyging)
        adj == IF numcases = 0 /\ no_zero_arg_meaning THEN -5 ELSE 2 * numcases
    IN  adj + verb_case_score(t, tok)

\* any(pt.first == 'nhm' for pt in finals[i - 1]), guarded by i > 0
nhm_before(idx, fin) == idx > 0 /\ \E pt \in fin[idx - 1] : pt.first = "nhm"

\* What the heuristics add to sc[t] for a verb terminal t
so_score(t, idx, s, tok, fin) ==
      (IF variant(t, 0) \in {"0", "1", "2"} THEN verb_args_score(t, tok) ELSE 0)
    + (IF is_sagnb(t) THEN 6
       ELSE IF is_lh(t) THEN (IF has_variant(t, "vb") THEN -2 ELSE 3)
       ELSE IF is_mm(t) THEN 3
       ELSE IF is_vh(t) THEN 2
       ELSE 0)
    + (IF is_subj(t) THEN (IF has_variant(t, "none") THEN -3 ELSE 1) ELSE 0)
    + (IF is_nh(t) /\ nhm_before(idx, fin) THEN 4 ELSE 0)
    + (IF is_nh(t) /\ \E pt \in s : pt.first = "no" /\ has_variant(pt, "ef") /\ is_plural(pt)
       THEN 4 ELSE 0)

\* What the heuristics add to sc[t] for a preposition terminal t
fs_score(t, txt) ==
    IF has_variant(t, "nf") THEN -5
    ELSE IF txt = "vid" /\ has_variant(t, "thgf") THEN 1
    ELSE IF txt = "sem" /\ has_variant(t, "thf") THEN -6
    ELSE 2

\* What the heuristics add to sc[t] for a proper-name terminal t
sernafn_score(idx, w_start, tok) ==
    IF Len(tok.t2) = 0 THEN 2
    ELSE IF idx = w_start THEN -10
    ELSE -6

\* for pt in scores[i - 1].keys(): if pt.first == 'nhm': scores[i - 1][pt] += 2; break
prop_up_nhm(prev) ==
    LET hits == {k \in 1..Len(prev.keys) : prev.keys[k].first = "nhm"}
    IN  IF hits = {} THEN prev
        ELSE [prev EXCEPT !.sc[prev.keys[Min(hits)]] = @ + 2]

\* for pt in s: if (pt.first == "no" or pt.first == "töl") and pt.has_variant("ef"): sc[pt] -= 1
discourage_ef(s, sc) ==
    [pt \in s |->
        IF pt.first \in {"no", "tol"} /\ has_variant(pt, "ef") THEN sc[pt] - 1 ELSE sc[pt]]

\* The body of "for t in s" for one terminal t: st = [sc: scores[i], prev: scores[i - 1]]
heuristic(t, st, idx, s, tok, fin, w_start) ==
    LET tfirst == t.first
        sc == st.sc
    IN  IF tfirst \in {"ao", "eo"} THEN [st EXCEPT !.sc[t] = @ - 1]
        ELSE IF tfirst = "no" THEN
            IF is_singular(t) THEN [st EXCEPT !.sc[t] = @ + 1]
            ELSE IF is_abbrev(t) THEN [st EXCEPT !.sc[t] = @ - 1]
            ELSE st
        ELSE IF tfirst = "fs" THEN [st EXCEPT !.sc[t] = @ + fs_score(t, tok.lower)]
        ELSE IF tfirst = "so" THEN
            [sc |-> [sc EXCEPT ![t] = @ + so_score(t, idx, s, tok, fin)],
             prev |-> IF is_nh(t) /\ nhm_before(idx, fin) THEN prop_up_nhm(st.prev) ELSE st.prev]
        ELSE IF tfirst \in {"tala", "tol"} THEN
            [st EXCEPT !.sc = discourage_ef(s, IF tfirst = "tala" THEN [sc EXCEPT ![t] = @ - 1] ELSE sc)]
        ELSE IF tfirst = "sernafn" THEN [st EXCEPT !.sc[t] = @ + sernafn_score(idx, w_start, tok)]
        ELSE IF is_literal(t) THEN [st EXCEPT !.sc[t] = @ + 1]
        ELSE st

\* "for t in s", iterating s in the order ord, from its k-th element on
RECURSIVE heuristics_loop(_, _, _, _, _, _, _)
heuristics_loop(k, ord, st, idx, tok, fin, w_start) ==
    IF k > Len(ord) THEN st
    ELSE heuristics_loop(k + 1, ord,
            heuristic(ord[k], st, idx, Range(ord), tok, fin, w_start),
            idx, tok, fin, w_start)

\* scores[i - 1] when it exists (an empty dict stands in when it does not)
PrevScores(scs, idx) ==
    IF (idx - 1) \in DOMAIN scs THEN scs[idx - 1] ELSE InitScores(<<>>)

\* One iteration of "for i in range(w.start, w.end)": the scores dict after it
score_position(idx, ord, fin, toks, scs, w_start) ==
    LET s == fin[idx]
        scs1 == [p \in DOMAIN scs \cup {idx} |-> IF p = idx THEN InitScores(ord) ELSE scs[p]]
    IN  IF Cardinality(s) <= 1 THEN scs1
        ELSE
            LET tok == toks[idx]
                sc1 == apply_preferences(s, tok.lower, scs1[idx].sc)
                st == heuristics_loop(1, ord, [sc |-> sc1, prev |-> PrevScores(scs1, idx)],
                                      idx, tok, fin, w_start)
            IN  [p \in DOMAIN scs1 |->
                    IF p = idx THEN [keys |-> ord, sc |-> st.sc]
                    ELSE IF p = idx - 1 THEN st.prev
                    ELSE scs1[p]]

(***************************************************************************)
(* The parse forest (fastparser.Node): token nodes bind a terminal to the  *)
(* token at a position; nonterminal nodes own families of children         *)
(***************************************************************************)
Production(priority) == [priority |-> priority]
Family(prod, children) == [prod |-> prod, children |-> children]

TokenNode(start, terminal) ==
    [is_token |-> TRUE, start |-> start, terminal |-> terminal,
     is_completed |-> FALSE, nonterminal |-> NoneNt, families |-> <<>>]

NonterminalNode(is_completed, nonterminal, fams) ==
    [is_token |-> FALSE, start |-> 0, terminal |-> T_ao,
     is_completed |-> is_completed, nonterminal |-> nonterminal, families |-> fams]

Forest(root, start, end, nodes, toks) ==
    [root |-> root, start |-> start, end |-> end, nodes |-> nodes, toks |-> toks]

\* forest is None
AbsentForest == Forest(None, 0, 0, <<>>, <<>>)

\* node.token: the token at the node's position
token(w, n) == w.toks[w.nodes[n].start]

\* The children that the families fams refer to
ChildrenOf(fams) == UNION {Range(fams[k].children) : k \in 1..Len(fams)}

\* The nodes the navigator reaches from node n (children have smaller ids)
RECURSIVE Reachable(_, _)
Reachable(w, n) ==
    IF n = None THEN {}
    ELSE {n} \cup UNION {Reachable(w, c) : c \in ChildrenOf(w.nodes[n].families)}

(***************************************************************************)
(* Reducer.OptionFinder and _find_options                                  *)
(***************************************************************************)
\* The token nodes on which _visit_token is called by OptionFinder(...).go(w)
visit_token_nodes(w) == {n \in Reachable(w, w.root) : w.nodes[n].is_token}

\* finals if _visit_token assigned {node.terminal} instead of adding to the set
find_options_finals_overwrite(w) ==
    [p \in Positions |->
        LET ns == {m \in visit_token_nodes(w) : w.nodes[m].start = p}
        IN  IF ns = {} THEN {} ELSE {w.nodes[Max(ns)].terminal}]

\* finals after _find_options: self._finals[node.start].add(node.terminal)
find_options_finals(w) ==
    [p \in Positions |->
        {w.nodes[n].terminal : n \in {m \in visit_token_nodes(w) : w.nodes[m].start = p}}]

\* tokens after _find_options: self._tokens[node.start] = node.token
find_options_tokens(w) ==
    [p \in {w.nodes[n].start : n \in visit_token_nodes(w)} |-> w.toks[p]]

(***************************************************************************)
(* ParseForestReducer.ReductionInfo                                        *)
(***************************************************************************)
\* A ReductionInfo that takes the nonterminal of any node, completed or not
ReductionInfo_any_node(node) ==
    [sc |-> <<>>,
     nt |-> node.nonterminal,
     highest_prio |-> NonePrio,
     use_prio |-> FALSE,
     highest_ix |-> {}]

ReductionInfo(node) ==
    [sc |-> <<>>,
     nt |-> IF node.is_completed THEN node.nonterminal ELSE NoneNt,
     highest_prio |-> NonePrio,
     use_prio |-> FALSE,
     highest_ix |-> {}]

\* add_child_score that assigns (self.sc[ix] = sc) where the code adds
add_child_score_assigning(results, ix, sc) ==
    IF \E k \in 1..Len(results.sc) : results.sc[k][1] = ix
    THEN [results EXCEPT !.sc =
            [k \in 1..Len(results.sc) |->
                IF results.sc[k][1] = ix THEN <<ix, sc>> ELSE results.sc[k]]]
    ELSE [results EXCEPT !.sc = Append(@, <<ix, sc>>)]

\* self.sc[ix] += sc, sc being a defaultdict(int): an ordered list of (ix, score)
add_child_score(results, ix, sc) ==
    IF \E k \in 1..Len(results.sc) : results.sc[k][1] = ix
    THEN [results EXCEPT !.sc =
            [k \in 1..Len(results.sc) |->
                IF results.sc[k][1] = ix THEN <<ix, results.sc[k][2] + sc>> ELSE results.sc[k]]]
    ELSE [results EXCEPT !.sc = Append(@, <<ix, sc>>)]

\* add_child_production with the comparison turned around: the larger number wins
add_child_production_larger_wins(results, ix, prod) ==
    IF results.nt = NoneNt THEN results
    ELSE
        LET prio == prod.priority
            r1 == IF results.highest_prio # NonePrio /\ prio # results.highest_prio
                  THEN [results EXCEPT !.use_prio = TRUE]
                  ELSE results
        IN  IF r1.highest_prio = NonePrio \/ prio > r1.highest_prio
            THEN [r1 EXCEPT !.highest_prio = prio, !.highest_ix = {ix}]
            ELSE IF prio = r1.highest_prio
            THEN [r1 EXCEPT !.highest_ix = @ \cup {ix}]
            ELSE r1

add_child_production(results, ix, prod) ==
    IF results.nt = NoneNt THEN results
    ELSE
        LET prio == prod.priority
            r1 == IF results.highest_prio # NonePrio /\ prio # results.highest_prio
                  THEN [results EXCEPT !.use_prio = TRUE]
                  ELSE results
        IN  IF r1.highest_prio = NonePrio \/ prio < r1.highest_prio
            THEN [r1 EXCEPT !.highest_prio = prio, !.highest_ix = {ix}]
            ELSE IF prio = r1.highest_prio
            THEN [r1 EXCEPT !.highest_ix = @ \cup {ix}]
            ELSE r1

(***************************************************************************)
(* ParseForestReducer._process_results                                     *)
(***************************************************************************)
\* An insertion that puts x after the elements of equal score: an unstable sort
RECURSIVE insert_desc_after_equal(_, _)
insert_desc_after_equal(x, s) ==
    IF s = <<>> THEN <<x>>
    ELSE IF Head(s)[2] < x[2] THEN <<x>> \o s
    ELSE <<Head(s)>> \o insert_desc_after_equal(x, Tail(s))

\* Insert x, which precedes all of s in the input, into the sorted list s
RECURSIVE insert_desc(_, _)
insert_desc(x, s) ==
    IF s = <<>> THEN <<x>>
    ELSE IF Head(s)[2] <= x[2] THEN <<x>> \o s
    ELSE <<Head(s)>> \o insert_desc(x, Tail(s))

\* sorted(csc.items(), key = lambda x: x[1], reverse = True): stable, by decreasing score
RECURSIVE sorted_desc(_)
sorted_desc(items) ==
    IF items = <<>> THEN <<>>
    ELSE insert_desc(Head(items), sorted_desc(Tail(items)))

\* csc: the child scores left after the priority filter
priority_filter(results) ==
    LET Keep(e) == e[1] \in results.highest_ix
    IN  IF results.use_prio THEN SelectSeq(results.sc, Keep) ELSE results.sc

\* _process_results that takes the unambiguous path whenever one family is left,
\* without looking at use_prio
process_results_ignoring_use_prio(results) ==
    LET csc == priority_filter(results)
        s == sorted_desc(csc)
        adj == IF results.nt # NoneNt THEN score_adj_get(results.nt) ELSE 0
    IN  IF Len(csc) = 1 THEN [raised |-> FALSE, reduce |-> FALSE, ix |-> 0, sc |-> csc[1][2] + adj]
        ELSE IF s = <<>> THEN [raised |-> TRUE, reduce |-> FALSE, ix |-> 0, sc |-> 0]
        ELSE [raised |-> FALSE, reduce |-> TRUE, ix |-> s[1][1], sc |-> s[1][2] + adj]

\* [raised: s[0] raised IndexError, reduce: reduce_to was called, ix: with this index,
\*  sc: the returned score]
process_results(results) ==
    LET csc == priority_filter(results)
        single == Len(csc) = 1 /\ ~results.use_prio
        s == sorted_desc(csc)
        adj == IF results.nt # NoneNt THEN score_adj_get(results.nt) ELSE 0
    IN  IF single THEN [raised |-> FALSE, reduce |-> FALSE, ix |-> 0, sc |-> csc[1][2] + adj]
        ELSE IF s = <<>> THEN [raised |-> TRUE, reduce |-> FALSE, ix |-> 0, sc |-> 0]
        ELSE [raised |-> FALSE, reduce |-> TRUE, ix |-> s[1][1], sc |-> s[1][2] + adj]

\* Node.reduce_to(ix): self._families = [ self._families[ix] ]
reduce_to(fams, n, ix) == [fams EXCEPT ![n] = <<fams[n][ix + 1]>>]

(***************************************************************************)
(* The forests given to the reducer                                        *)
(***************************************************************************)
Priorities == {0, 1}

\* Child lists of a family: one child (maybe epsilon), or one of the given pairs
ChildOptions(ids, pairs) == {<<c>> : c \in {None} \cup ids} \cup pairs

FamilyOptions(ids, pairs) ==
    {Family(Production(p), ch) : p \in Priorities, ch \in ChildOptions(ids, pairs)}

\* The families offered to the inner node 3 and to the root 4
InnerFamilies == FamilyOptions({1, 2}, {<<1, 2>>})
RootFamilies == FamilyOptions({1, 2, 3}, {<<1, 3>>, <<3, 3>>})

FamilySeqs(F, k) == UNION {[1..n -> F] : n \in 0..k}

InnerLabels == {<<FALSE, "A">>, <<TRUE, "A">>, <<TRUE, "B">>}

\* Two token nodes at position 0, an inner nonterminal node 3 and the root 4
StructForest(lab, f3, f4) ==
    Forest(4, 0, 1,
           <<TokenNode(0, T_ao), TokenNode(0, T_no_et),
             NonterminalNode(lab[1], lab[2], f3), NonterminalNode(TRUE, "A", f4)>>,
           [p \in {0} |-> Tok_x])

StructForests ==
    {StructForest(c[1], c[2], c[3]) :
        c \in {d \in InnerLabels \X FamilySeqs(InnerFamilies, MaxFam)
                        \X FamilySeqs(RootFamilies, MaxFam) :
                /\ Len(d[2]) + Len(d[3]) <= TotalFam
                /\ \/ 3 \in ChildrenOf(d[3])
                   \/ d[1] = <<TRUE, "A">> /\ d[2] = <<>>}}

\* The elements of RichTerms with the indices idxs, in the order of RichTerms
RECURSIVE PickTerms(_)
PickTerms(idxs) ==
    IF idxs = {} THEN <<>>
    ELSE <<RichTerms[Min(idxs)]>> \o PickTerms(idxs \ {Min(idxs)})

\* The candidates offered at the position before the scored one
PrevSeqs == {<<>>, <<T_nhm>>, <<T_nhm, T_nhm_x>>, <<T_nhm, T_ao>>}

\* One token node per candidate terminal a[..] at position 0 and b[..] at position 1,
\* and a root whose j-th family pairs the j-th candidates (the last one repeating)
FlatForest(start, end, a, b, tok1) ==
    LET na == Len(a)
        nb == Len(b)
        nf == IF na > nb THEN na ELSE nb
        fam(j) == Family(Production(0),
                     (IF na > 0 THEN <<IF j < na THEN j ELSE na>> ELSE <<>>)
                  \o (IF nb > 0 THEN <<na + (IF j < nb THEN j ELSE nb)>> ELSE <<>>))
    IN  Forest(na + nb + 1, start, end,
               [n \in 1..(na + nb + 1) |->
                    IF n <= na THEN TokenNode(0, a[n])
                    ELSE IF n <= na + nb THEN TokenNode(1, b[n - na])
                    ELSE NonterminalNode(TRUE, "A", [j \in 1..nf |-> fam(j)])],
               [p \in Positions |-> IF p = 0 THEN Tok_ad ELSE tok1])

FlatForests ==
    {FlatForest(c[1], c[2], c[3], PickTerms(c[4]), c[5]) :
        c \in {d \in {0, 1} \X {1, 2} \X PrevSeqs
                        \X {x \in SUBSET (1..Len(RichTerms)) : Cardinality(x) <= MaxCand}
                        \X Tokens1 :
                /\ d[1] = 1 => d[3] = <<>>
                /\ d[1] < d[2]
                /\ d[2] = 1 => d[4] = {}}}

(***************************************************************************)
(* BIN database access (src/bindb.py): BIN_Db.meanings behind its          *)
(* lru_cache, and BIN_Db.lookup_word.  A word is a sequence of characters  *)
(* (o^ stands for the letter o with an acute accent).  A Python list is    *)
(* [none, items]: none is TRUE for None.  The cache holds the list objects *)
(* themselves, so a list changed in place changes in the cache as well.    *)
(***************************************************************************)
MaxCalls == 3    \* calls made to BIN_Db in one behaviour

\* Size of LRU cache for word lookups
CACHE_SIZE == 512
\* Check for adjective if word contains 'leg'
ADJECTIVE_TEST == <<"l", "e", "g">>

BIN_Meaning(stofn, utg, ordfl, fl, ordmynd, beyging) ==
    [stofn |-> stofn, utg |-> utg, ordfl |-> ordfl, fl |-> fl,
     ordmynd |-> ordmynd, beyging |-> beyging]

NoneList == [none |-> TRUE, items |-> <<>>]
List(items) == [none |-> FALSE, items |-> items]
\* not m
Falsy(m) == m.none \/ m.items = <<>>

\* str.lower(), character by character
lower_char(ch) ==
    CASE ch = "V" -> "v" [] ch = "A" -> "a" [] ch = "Z" -> "z" [] ch = "D" -> "d"
      [] OTHER -> ch
lower(w) == [k \in 1..Len(w) |-> lower_char(w[k])]

\* sub in s, s.endswith(sub)
Contains(s, sub) == \E k \in 1..(Len(s) - Len(sub) + 1) : SubSeq(s, k, k + Len(sub) - 1) = sub
EndsWith(s, sub) == Len(s) >= Len(sub) /\ SubSeq(s, Len(s) - Len(sub) + 1, Len(s)) = sub

\* The words looked up
W_Vid == <<"V", "i", "d">>
W_vid == <<"v", "i", "d">>
W_alegt == <<"a", "l", "e", "g", "t">>
W_Alegt == <<"A", "l", "e", "g", "t">>
W_avid == <<"a", "v", "i", "d">>
W_ovid == <<"o^", "v", "i", "d">>
W_dr == <<"[", "D", "r", "]">>
W_Z == <<"Z">>
W_z == <<"z">>
W_x == <<"x">>
Words == {W_Vid, W_vid, W_alegt, W_Alegt, W_avid, W_ovid, W_dr, W_Z, W_z, W_x}

\* The table ord of the database, which does not change: the rows with ordmynd = w
DbRows(w) ==
    IF w = W_Vid THEN <<BIN_Meaning(W_Vid, 1, "no", "alm", W_Vid, "NFET")>>
    ELSE IF w = W_vid THEN <<BIN_Meaning(W_vid, 2, "fs", "alm", W_vid, "-"),
                             BIN_Meaning(W_vid, 3, "lo", "alm", W_vid, "FSB")>>
    ELSE IF w = W_Z THEN <<BIN_Meaning(W_Z, 4, "no", "alm", W_Z, "NFET")>>
    ELSE <<>>
\* The words for which the query raises DataError
DbErrorWords == {W_z}
\* settings.Meanings.DICT: additional meanings from the settings file
MeaningsDICT == [w \in {W_vid} |-> <<BIN_Meaning(W_vid, 0, "ao", "alm", W_vid, "-")>>]
\* settings.Abbreviations.DICT
AbbreviationsDICT ==
    [w \in {<<"d", "r">>} |-> BIN_Meaning(<<"d", "r">>, 0, "no", "skst", <<"d", "r">>, "-")]
\* settings.AdjectiveTemplate.ENDINGS
ENDINGS ==
    <<[aend |-> <<"l", "e", "g", "t">>, beyging |-> "HK-NFET"],
      [aend |-> <<"l", "e", "g", "t">>, beyging |-> "HK-THFET"],
      [aend |-> <<"l", "e", "g", "u", "r">>, beyging |-> "KK-NFET"]>>
\* Wordbase.dawg().slice_compound_word(lower_w): the parts, or nothing
slice_compound_word(lw) == IF lw = W_avid THEN <<<<"a">>, W_vid>> ELSE <<>>

\* The body of BIN_Db.meanings: the rows of the word and the additional meanings, in a
\* new list; None when the query raises
db_meanings(w) ==
    IF w \in DbErrorWords THEN NoneList
    ELSE List(DbRows(w) \o (IF w \in DOMAIN MeaningsDICT THEN MeaningsDICT[w] ELSE <<>>))

\* @lru_cache(maxsize = CACHE_SIZE) around meanings: [cache: the cache after the call,
\* val: the list returned], the entry used moving to the most recent end
meanings(c, w) ==
    LET hits == {k \in 1..Len(c) : c[k].w = w}
    IN  IF hits # {}
        THEN LET k == CHOOSE x \in hits : TRUE
                 rest == [j \in 1..(Len(c) - 1) |-> IF j < k THEN c[j] ELSE c[j + 1]]
             IN  [cache |-> Append(rest, c[k]), val |-> c[k].val]
        ELSE LET v == db_meanings(w)
                 c1 == Append(c, [w |-> w, val |-> v])
             IN  [cache |-> IF Len(c1) > CACHE_SIZE THEN Tail(c1) ELSE c1, val |-> v]

\* A list changed in place: the cache entry that holds the same list object changes too
NoAlias == <<>>
SetEntry(c, w, v) == [k \in 1..Len(c) |-> IF c[k].w = w THEN [w |-> w, val |-> v] ELSE c[k]]
\* m.extend(items) and m.append(x) on the list m of st, which is the cached list of the
\* word st.alias unless st.alias is NoAlias
list_extend(st, items) ==
    LET m1 == List(st.m.items \o items)
    IN  [st EXCEPT !.m = m1, !.cache = SetEntry(@, st.alias, m1)]

\* lookup_abbreviation(w): a new single-element list, or None
lookup_abbreviation(w) ==
    LET clean_w == IF Head(w) = "[" THEN SubSeq(w, 2, Len(w) - 1) ELSE w
    IN  IF clean_w \in DOMAIN AbbreviationsDICT THEN List(<<AbbreviationsDICT[clean_w]>>)
        ELSE NoneList

\* if lower_w != w: the second lookup, for the lowercase word
lookup_lower(st, lower_w) ==
    IF lower_w = st.w THEN st
    ELSE LET r == meanings(st.cache, lower_w)
         IN  IF Falsy(st.m)
             THEN [st EXCEPT !.cache = r.cache, !.m = r.val, !.alias = lower_w]
             ELSE IF r.val.none
             THEN [st EXCEPT !.cache = r.cache, !.raised = TRUE]
             ELSE list_extend([st EXCEPT !.cache = r.cache], r.val.items)

\* Still nothing: check abbreviations
check_abbreviations(st, lower_w) ==
    IF st.raised \/ ~Falsy(st.m) THEN st
    ELSE IF ~(IF lower_w # st.w THEN TRUE ELSE Head(st.w) = "[") THEN st
    ELSE LET bracket == Head(st.w) = "["
             m1 == lookup_abbreviation(st.w)
             m2 == IF Falsy(m1) /\ bracket THEN lookup_abbreviation(lower_w) ELSE m1
         IN  [st EXCEPT !.m = m2, !.alias = NoAlias,
                        !.w = IF ~Falsy(m2) /\ bracket THEN SubSeq(@, 2, Len(@) - 1) ELSE @]

\* One ending of "for aend, beyging in AdjectiveTemplate.ENDINGS"
adjective_ending(st, lower_w, e) ==
    IF EndsWith(lower_w, e.aend) /\ Len(lower_w) > Len(e.aend)
    THEN LET prefix == SubSeq(lower_w, 1, Len(lower_w) - Len(e.aend))
             st1 == IF st.m.none THEN [st EXCEPT !.m = List(<<>>), !.alias = NoAlias] ELSE st
         IN  list_extend(st1, <<BIN_Meaning(prefix \o <<"l", "e", "g", "u", "r">>, 0, "lo", "alm",
                                            lower_w, e.beyging)>>)
    ELSE st

RECURSIVE adjective_endings(_, _, _)
adjective_endings(st, lower_w, k) ==
    IF k > Len(ENDINGS) THEN st
    ELSE adjective_endings(adjective_ending(st, lower_w, ENDINGS[k]), lower_w, k + 1)

\* Not found: check whether this might be an adjective
check_adjective(st, lower_w) ==
    IF st.raised \/ ~Falsy(st.m) THEN st
    ELSE IF ~Contains(lower_w, ADJECTIVE_TEST) THEN st
    ELSE adjective_endings(st, lower_w, 1)

\* "-".join(parts)
join(parts) ==
    IF Len(parts) = 0 THEN <<>>
    ELSE IF Len(parts) = 1 THEN parts[1]
    ELSE parts[1] \o <<"-">> \o parts[2]

\* Still nothing: check compound words; "for r in m" raises TypeError when m is None
check_compound(st, lower_w) ==
    IF st.raised \/ ~Falsy(st.m) THEN st
    ELSE LET cw == slice_compound_word(lower_w)
         IN  IF cw = <<>> THEN st
             ELSE LET prefix == join(SubSeq(cw, 1, Len(cw) - 1))
                      r == meanings(st.cache, cw[Len(cw)])
                  IN  IF r.val.none THEN [st EXCEPT !.cache = r.cache, !.raised = TRUE]
                      ELSE [st EXCEPT !.cache = r.cache, !.alias = NoAlias,
                                      !.m = List([k \in 1..Len(r.val.items) |->
                                                [r.val.items[k] EXCEPT
                                                    !.stofn = prefix \o <<"-">> \o @,
                                                    !.ordmynd = prefix \o <<"-">> \o @]])]

\* Check whether an adjective without the o^ prefix is found
check_negation(st, lower_w) ==
    IF st.raised \/ ~Falsy(st.m) THEN st
    ELSE IF Head(lower_w) # "o^" THEN st
    ELSE LET suffix == Tail(lower_w)
         IN  IF suffix = <<>> THEN st
             ELSE LET om == meanings(st.cache, suffix)
                      IsLo(r) == r.ordfl = "lo"
                      lo == SelectSeq(om.val.items, IsLo)
                  IN  IF Falsy(om.val) THEN [st EXCEPT !.cache = om.cache]
                      ELSE [st EXCEPT !.cache = om.cache, !.alias = NoAlias,
                                      !.m = List([k \in 1..Len(lo) |->
                                                [lo[k] EXCEPT !.stofn = <<"o^">> \o @,
                                                              !.ordmynd = <<"o^">> \o @]])]

\* BIN_Db.lookup_word(w, at_sentence_start): [cache: the cache after the call, w and m:
\* the pair returned, raised: an exception left the call instead]
lookup_word(c, w, at_sentence_start) ==
    LET r == meanings(c, w)
        st0 == [cache |-> r.cache, m |-> r.val, alias |-> w, w |-> w, raised |-> FALSE]
        lower_w == lower(w)
    IN  IF at_sentence_start \/ Falsy(r.val)
        THEN check_negation(
                check_compound(
                    check_adjective(
                        check_abbreviations(lookup_lower(st0, lower_w), lower_w),
                        lower_w),
                    lower_w),
                lower_w)
        ELSE st0

(***************************************************************************)
(* State machine: calls of BIN_Db.meanings and BIN_Db.lookup_word on one   *)
(* database connection                                                     *)
(***************************************************************************)
NoCall == [args |-> <<>>, ret |-> [raised |-> FALSE, w |-> <<>>, m |-> NoneList]]

BinInit ==
    /\ forest = AbsentForest
    /\ families = <<>>
    /\ finals = [p \in Positions |-> {}]
    /\ tokens = <<>>
    /\ scores = <<>>
    /\ i = 0
    /\ stack = <<>>
    /\ visited = <<>>
    /\ result = <<>>
    /\ pc = "start"
    /\ cache = <<>>
    /\ calls = 0
    /\ seen = <<>>
    /\ last_call = NoCall

\* db.meanings(w)
CallMeanings ==
    /\ calls < MaxCalls
    /\ \E w \in Words : cache' = meanings(cache, w).cache
    /\ calls' = calls + 1
    /\ UNCHANGED <<seen, last_call>>
    /\ UNCHANGED rvars

\* db.lookup_word(w, at_sentence_start)
CallLookupWord ==
    /\ calls < MaxCalls
    /\ \E w \in Words, at_sentence_start \in BOOLEAN :
          LET st == lookup_word(cache, w, at_sentence_start)
              args == <<w, at_sentence_start>>
              ret == [raised |-> st.raised,
                      w |-> IF st.raised THEN <<>> ELSE st.w,
                      m |-> IF st.raised THEN NoneList ELSE st.m]
          IN  /\ cache' = st.cache
              /\ last_call' = [args |-> args, ret |-> ret]
              /\ seen' = IF args \in DOMAIN seen THEN seen
                         ELSE [a \in DOMAIN seen \cup {args} |->
                                    IF a = args THEN ret ELSE seen[a]]
    /\ calls' = calls + 1
    /\ UNCHANGED rvars

BinNext ==
    \/ CallMeanings
    \/ CallLookupWord

BinSpec == BinInit /\ [][BinNext]_vars

(***************************************************************************)
(* State machine: Reducer.go_with_score(forest)                            *)
(***************************************************************************)
InitWith(w) ==
    /\ forest = w
    /\ families = [n \in DOMAIN w.nodes |-> w.nodes[n].families]
    /\ finals = [p \in Positions |-> {}]
    /\ tokens = <<>>
    /\ scores = <<>>
    /\ i = 0
    /\ stack = <<>>
    /\ visited = <<>>
    /\ result = <<>>
    /\ pc = "start"
    /\ cache = <<>>
    /\ calls = 0
    /\ seen = <<>>
    /\ last_call = NoCall

Init == \E w \in StructForests \cup FlatForests \cup {AbsentForest} : InitWith(w)

\* go_with_score without its test for None: w.start raises in _calc_terminal_scores
GoAbsent_unchecked ==
    /\ pc = "start"
    /\ forest.root = None
    /\ pc' = "failed"
    /\ UNCHANGED <<forest, families, finals, tokens, scores, i, stack, visited, result>>
    /\ UNCHANGED bvars

\* if forest is None: return (None, 0)
GoAbsent ==
    /\ pc = "start"
    /\ forest.root = None
    /\ result' = <<None, 0>>
    /\ pc' = "done"
    /\ UNCHANGED <<forest, families, finals, tokens, scores, i, stack, visited>>
    /\ UNCHANGED bvars

\* _calc_terminal_scores up to its loop: the first pass, self._find_options(w, finals, tokens)
FindOptions ==
    /\ pc = "start"
    /\ forest.root # None
    /\ finals' = find_options_finals(forest)
    /\ tokens' = find_options_tokens(forest)
    /\ scores' = <<>>
    /\ i' = forest.start
    /\ pc' = "score"
    /\ UNCHANGED <<forest, families, stack, visited, result>>
    /\ UNCHANGED bvars

\* One iteration of "for i in range(w.start, w.end)"; the set finals[i] iterates in any order
ScorePosition ==
    /\ pc = "score"
    /\ i < forest.end
    /\ \E ord \in Orders(finals[i]) :
            scores' = score_position(i, ord, finals, tokens, scores, forest.start)
    /\ i' = i + 1
    /\ UNCHANGED <<forest, families, finals, tokens, stack, visited, result, pc>>
    /\ UNCHANGED bvars

Frame(n) == [w |-> n, ix |-> 0, ci |-> 0, results |-> ReductionInfo(forest.nodes[n])]

\* The loop is over: return scores, then _reduce(forest, scores) enters the root
StartReduce ==
    /\ pc = "score"
    /\ i = forest.end
    /\ stack' = <<Frame(forest.root)>>
    /\ visited' = <<>>
    /\ pc' = "reduce"
    /\ UNCHANGED <<forest, families, finals, tokens, scores, i, result>>
    /\ UNCHANGED bvars

Top == stack[Len(stack)]
\* The family that the top frame is in, and the child it is about to visit
TopFamily == families[Top.w][Top.ix + 1]
TopChild == TopFamily.children[Top.ci + 1]
InFamilies == pc = "reduce" /\ Top.ix < Len(families[Top.w])

\* _visit_family, called when the frame enters a family
visit_family(fr, fam) ==
    IF fr.ci = 0
    THEN [fr EXCEPT !.results = add_child_production(@, fr.ix, fam.prod)]
    ELSE fr

\* _add_result for the current child, then on to the next child or the next family
add_result(fr, fam, sc) ==
    LET last == fr.ci + 1 = Len(fam.children)
    IN  [fr EXCEPT !.results = add_child_score(@, fr.ix, sc),
                   !.ix = IF last THEN @ + 1 ELSE @,
                   !.ci = IF last THEN 0 ELSE @ + 1]

\* if w in visited: return visited[w]
IsVisited(c) == c \in DOMAIN visited

Memo(c, v) == [x \in DOMAIN visited \cup {c} |-> IF x = c THEN v ELSE visited[x]]

\* self._scores[node.start][node.terminal] has the key
HasScore(n) ==
    /\ forest.nodes[n].start \in DOMAIN scores
    /\ forest.nodes[n].terminal \in DOMAIN scores[forest.nodes[n].start].sc

\* _visit_epsilon, _visit_token, or the memoised result of a visited node
leaf_value(c) ==
    IF IsVisited(c) THEN visited[c]
    ELSE IF c = None THEN 0
    ELSE scores[forest.nodes[c].start].sc[forest.nodes[c].terminal]

\* Child c needs no new frame: it is epsilon, a token node, or already visited
IsLeaf(c) ==
    IF c = None THEN TRUE
    ELSE IF IsVisited(c) THEN TRUE
    ELSE forest.nodes[c].is_token

\* The value of leaf c can be had (a token node needs its entry in scores)
LeafOk(c) ==
    IF c = None THEN TRUE
    ELSE IF IsVisited(c) THEN TRUE
    ELSE HasScore(c)

\* The current child is epsilon, a token node, or a node already visited
NavLeaf ==
    /\ InFamilies
    /\ LET c == TopChild
       IN  /\ IsLeaf(c)
           /\ IF LeafOk(c)
              THEN /\ stack' = [stack EXCEPT ![Len(stack)] =
                                    add_result(visit_family(Top, TopFamily), TopFamily,
                                               leaf_value(c))]
                   /\ visited' = Memo(c, leaf_value(c))
                   /\ pc' = pc
              ELSE /\ pc' = "failed"
                   /\ UNCHANGED <<stack, visited>>
    /\ UNCHANGED <<forest, families, finals, tokens, scores, i, result>>
    /\ UNCHANGED bvars

\* The current child is a nonterminal node not yet visited: _visit_nonterminal
NavDescend ==
    /\ InFamilies
    /\ LET c == TopChild
       IN  /\ ~IsLeaf(c)
           /\ stack' = Append([stack EXCEPT ![Len(stack)] = visit_family(Top, TopFamily)],
                              Frame(c))
    /\ UNCHANGED <<forest, families, finals, tokens, scores, i, visited, result, pc>>
    /\ UNCHANGED bvars

AtEnd == pc = "reduce" /\ Top.ix = Len(families[Top.w])

\* All families visited: _process_results, and the result goes to the parent
NavProcess ==
    /\ AtEnd
    /\ LET r == process_results(Top.results)
           parent == stack[Len(stack) - 1]
       IN  /\ ~r.raised
           /\ families' = IF r.reduce THEN reduce_to(families, Top.w, r.ix) ELSE families
           /\ visited' = Memo(Top.w, r.sc)
           /\ IF Len(stack) = 1
              THEN /\ stack' = <<>>
                   /\ result' = <<forest.root, r.sc>>
                   /\ pc' = "done"
              ELSE /\ stack' = [SubSeq(stack, 1, Len(stack) - 1) EXCEPT ![Len(stack) - 1] =
                                    add_result(parent, families[parent.w][parent.ix + 1], r.sc)]
                   /\ UNCHANGED <<result, pc>>
    /\ UNCHANGED <<forest, finals, tokens, scores, i>>
    /\ UNCHANGED bvars

\* No family left to choose from: s[0] raises and the exception leaves go_with_score
NavRaise ==
    /\ AtEnd
    /\ process_results(Top.results).raised
    /\ pc' = "failed"
    /\ UNCHANGED <<forest, families, finals, tokens, scores, i, stack, visited, result>>
    /\ UNCHANGED bvars

Next ==
    \/ GoAbsent
    \/ FindOptions
    \/ ScorePosition
    \/ StartReduce
    \/ NavLeaf
    \/ NavDescend
    \/ NavProcess
    \/ NavRaise

Spec == Init /\ [][Next]_vars

\* Reducer.go: the reduced forest without its score
go(r) == r[1]

(***************************************************************************)
(* Reducer._calc_terminal_scores as a whole: the loop over the positions,  *)
(* ords[p] being the order in which the set finals[p] iterates             *)
(***************************************************************************)
RECURSIVE calc_scores_loop(_, _, _, _, _)
calc_scores_loop(idx, last, ords, w, scs) ==
    IF idx > last THEN scs
    ELSE calc_scores_loop(idx + 1, last, ords, w,
            score_position(idx, ords[idx], find_options_finals(w), find_options_tokens(w),
                           scs, w.start))

calc_terminal_scores(w, ords) == calc_scores_loop(w.start, w.end - 1, ords, w, <<>>)

\* The iteration orders that the sets finals[p] of a forest can have
OrderChoices(w) ==
    LET fin == find_options_finals(w)
        D == w.start..(w.end - 1)
    IN  {f \in [D -> UNION {Orders(fin[p]) : p \in D}] : \A p \in D : f[p] \in Orders(fin[p])}

(***************************************************************************)
(* Reference definitions for the properties                                *)
(***************************************************************************)
RECURSIVE SumOver(_, _)
SumOver(S, f) ==
    IF S = {} THEN 0
    ELSE LET x == CHOOSE y \in S : TRUE IN f[x] + SumOver(S \ {x}, f)

RECURSIVE SumSeq(_)
SumSeq(q) == IF q = <<>> THEN 0 ELSE Head(q) + SumSeq(Tail(q))

Node(n) == forest.nodes[n]
OrigFamilies(n) == forest.nodes[n].families
ReachableNodes == Reachable(forest, forest.root)
ReachableNT == {n \in ReachableNodes : ~Node(n).is_token}
ReachableTokens == {n \in ReachableNodes : Node(n).is_token}
FamPrios(n) == {OrigFamilies(n)[k].prod.priority : k \in 1..Len(OrigFamilies(n))}
DiffPrio(n) == Cardinality(FamPrios(n)) > 1
\* The scoring pass is over
Scored == pc \in {"reduce", "done", "failed"}
\* The nonterminal nodes whose _process_results has returned
Processed == {n \in DOMAIN visited : n # None /\ ~Node(n).is_token}
NodeAdj(n) == IF Node(n).is_completed THEN score_adj_get(Node(n).nonterminal) ELSE 0

\* The total of family k of node n: the sum of the results of its children
FamilyTotal(n, k) ==
    SumSeq([j \in 1..Len(OrigFamilies(n)[k].children) |->
                visited[OrigFamilies(n)[k].children[j]]])

\* The families of node n left after the priority filter, as the specification has it:
\* those of minimum priority number when the families differ in priority
RemainingSpec(n) ==
    IF DiffPrio(n)
    THEN {k \in 1..Len(OrigFamilies(n)) : OrigFamilies(n)[k].prod.priority = Min(FamPrios(n))}
    ELSE 1..Len(OrigFamilies(n))

\* ... and as the code has it: priorities count for completed nodes only
Remaining(n) == IF Node(n).is_completed THEN RemainingSpec(n) ELSE 1..Len(OrigFamilies(n))

\* The first of the highest-scoring families among K
BestOf(n, K) ==
    CHOOSE k \in K :
        \A j \in K : \/ FamilyTotal(n, j) < FamilyTotal(n, k)
                     \/ FamilyTotal(n, j) = FamilyTotal(n, k) /\ j >= k

(***************************************************************************)
(* Properties                                                              *)
(***************************************************************************)

\* C1: when go_with_score has returned for a forest that is not absent, every
\* nonterminal node reachable from the root has exactly one family, which is one of
\* the families it had before the call; no node is added and no other node changes.
C1_OneFamilyEach ==
    (pc = "done" /\ forest.root # None) =>
        /\ DOMAIN families = DOMAIN forest.nodes
        /\ \A n \in DOMAIN forest.nodes :
              IF n \in ReachableNT
              THEN /\ Len(families[n]) = 1
                   /\ \E k \in 1..Len(OrigFamilies(n)) : families[n][1] = OrigFamilies(n)[k]
              ELSE families[n] = OrigFamilies(n)

\* C1 witness: a finished reduction of a nested forest that dropped families of a node
C1_Witness ==
    /\ pc = "done"
    /\ \E n, m \in ReachableNT : n # m /\ Len(OrigFamilies(n)) > 1

SurvivorHasMinPrio(n) ==
    /\ Len(families[n]) = 1
    /\ families[n][1].prod.priority = Min(FamPrios(n))

\* C2 as stated: at every reduced nonterminal node whose families differ in priority,
\* the surviving family has the minimum priority number of the node's families.
C2_AnyNodeMinPrio ==
    \A n \in Processed : DiffPrio(n) => SurvivorHasMinPrio(n)

\* C2 amended: at every reduced completed nonterminal node whose families differ in
\* priority, the surviving family has the minimum priority number, whatever the scores.
C2_CompletedNodeMinPrio ==
    \A n \in Processed : (Node(n).is_completed /\ DiffPrio(n)) => SurvivorHasMinPrio(n)

\* C2 witness: a completed node where a family of larger priority number scored higher
\* than the survivor
C2_Witness ==
    \E n \in Processed :
        /\ Node(n).is_completed
        /\ DiffPrio(n)
        /\ \E k \in 1..Len(OrigFamilies(n)) :
              /\ OrigFamilies(n)[k].prod.priority > Min(FamPrios(n))
              /\ FamilyTotal(n, k) > FamilyTotal(n, BestOf(n, RemainingSpec(n)))

\* C9: at every reduced nonterminal node the surviving family is, among the families
\* left after the priority filter, the one with the highest total score, and of several
\* with that score the one with the smallest family index.
C9_BestScoreFirstIndex ==
    \A n \in Processed : families[n] = <<OrigFamilies(n)[BestOf(n, Remaining(n))]>>

\* C9 witness: two different families tie on the highest score and the first survived
C9_Witness ==
    \E n \in Processed :
        \E j, k \in Remaining(n) :
            /\ j < k
            /\ j = BestOf(n, Remaining(n))
            /\ FamilyTotal(n, j) = FamilyTotal(n, k)
            /\ OrigFamilies(n)[j] # OrigFamilies(n)[k]
            /\ families[n] = <<OrigFamilies(n)[j]>>

AllSingle == \A n \in ReachableNT : Len(OrigFamilies(n)) = 1
TokenScore(n) == scores[Node(n).start].sc[Node(n).terminal]
Unreduced == [n \in DOMAIN forest.nodes |-> OrigFamilies(n)]

\* The score of the tree below node n of a forest without ambiguity, every reference
\* to a node counted
RECURSIVE TreeScore(_)
TreeScore(n) ==
    IF n = None THEN 0
    ELSE IF Node(n).is_token THEN TokenScore(n)
    ELSE SumSeq([j \in 1..Len(OrigFamilies(n)[1].children) |->
                    TreeScore(OrigFamilies(n)[1].children[j])]) + NodeAdj(n)

\* The sum over the nodes, every node counted once
NodeSum ==
    SumOver(ReachableTokens, [n \in ReachableTokens |-> TokenScore(n)])
        + SumOver(ReachableNT, [n \in ReachableNT |-> NodeAdj(n)])

\* C3 as stated: when every nonterminal node has one family, reduction changes no
\* family list and the root score is the sum of the scores of all token nodes plus
\* the adjustments of all completed nonterminal nodes.
C3_SumOverNodes ==
    (pc = "done" /\ forest.root # None /\ AllSingle) =>
        /\ families = Unreduced
        /\ result[2] = NodeSum

\* C3 amended: ... the root score is the sum over the tree, a node that is the child of
\* several families (or twice of one) counted once for each reference to it.
C3_SumOverReferences ==
    (pc = "done" /\ forest.root # None /\ AllSingle) =>
        /\ families = Unreduced
        /\ result[2] = TreeScore(forest.root)

\* C3 witness: a finished reduction without ambiguity, of a forest with a shared node
\* that makes the two sums differ
C3_Witness ==
    /\ pc = "done"
    /\ forest.root # None
    /\ AllSingle
    /\ \E n \in ReachableNT : ~Node(n).is_completed
    /\ TreeScore(forest.root) # NodeSum

\* The result of the reducer at node n for the terminal scores scs
RECURSIVE RefValue(_, _)
RefFamilyTotal(n, k, scs) ==
    SumSeq([j \in 1..Len(OrigFamilies(n)[k].children) |->
                RefValue(OrigFamilies(n)[k].children[j], scs)])

RefBest(n, scs) ==
    CHOOSE k \in Remaining(n) :
        \A j \in Remaining(n) :
            \/ RefFamilyTotal(n, j, scs) < RefFamilyTotal(n, k, scs)
            \/ RefFamilyTotal(n, j, scs) = RefFamilyTotal(n, k, scs) /\ j >= k

RefValue(n, scs) ==
    IF n = None THEN 0
    ELSE IF Node(n).is_token THEN scs[Node(n).start].sc[Node(n).terminal]
    ELSE RefFamilyTotal(n, RefBest(n, scs), scs) + NodeAdj(n)

\* C4: the surviving families and the root score of a finished reduction are those of
\* every reduction of the same forest, in whatever order the candidate sets iterate.
C4_Determinism ==
    (pc = "done" /\ forest.root # None) =>
        \A ords \in OrderChoices(forest) :
            LET scs == calc_terminal_scores(forest, ords)
            IN  /\ result[2] = RefValue(forest.root, scs)
                /\ \A n \in ReachableNT : families[n] = <<OrigFamilies(n)[RefBest(n, scs)]>>

\* C5: every terminal of a reachable token node is in the candidate set of the node's
\* position; when the scoring pass is over it has one entry in the scores of that
\* position; after the option-finding pass no score exists and no family list changed.
C5_EveryTerminalScoredOnce ==
    /\ (pc = "score" /\ i = forest.start) => (families = Unreduced /\ scores = <<>>)
    /\ pc # "start" =>
          \A n \in ReachableTokens : Node(n).terminal \in finals[Node(n).start]
    /\ Scored =>
          \A n \in ReachableTokens :
              /\ Node(n).start \in DOMAIN scores
              /\ Node(n).terminal \in DOMAIN scores[Node(n).start].sc
              /\ Cardinality({k \in 1..Len(scores[Node(n).start].keys) :
                                scores[Node(n).start].keys[k] = Node(n).terminal}) = 1

\* C5 witness: scoring is over for a forest where two nodes refer to one token node
\* and two token nodes share a position
C5_Witness ==
    /\ Scored
    /\ \E t, u \in ReachableTokens :
          /\ t # u
          /\ Node(t).start = Node(u).start
          /\ \E n, m \in ReachableNT :
                /\ n # m
                /\ t \in ChildrenOf(OrigFamilies(n))
                /\ t \in ChildrenOf(OrigFamilies(m))

\* C6: go_with_score does not return normally for a forest that has a position of its
\* span without a recorded terminal, or a reachable nonterminal node without a family.
C6_MalformedForestAborts ==
    (pc = "done" /\ forest.root # None) =>
        /\ \A p \in forest.start..(forest.end - 1) : finals[p] # {}
        /\ \A n \in ReachableNT : Len(OrigFamilies(n)) > 0

\* The scores as they were when the loop had done position q, recomputed with the key
\* orders that the scores have
KeyOrders == [p \in DOMAIN scores |-> scores[p].keys]
ScoresUpTo(q) == calc_scores_loop(forest.start, q, KeyOrders, forest, <<>>)
NhVerbs(p) == {t \in finals[p] : t.first = "so" /\ is_nh(t)}
NhmTerms(p) == {t \in finals[p] : t.first = "nhm"}
\* The scores of position p had there been no candidate at position p - 1
WithoutMarker(p) ==
    score_position(p, scores[p].keys, [finals EXCEPT ![p - 1] = {}], tokens,
                   ScoresUpTo(p - 1), forest.start)[p].sc

\* C7: at an ambiguous position p with infinitive verb terminals, after an
\* infinitive marker at p - 1, each infinitive verb terminal has 4 more than without the
\* marker, and every infinitive-marker terminal at p - 1 has 2 more than before, once.
C7_InfinitiveBonus ==
    \A p \in DOMAIN scores :
        (/\ (p - 1) \in DOMAIN scores
         /\ Cardinality(finals[p]) > 1
         /\ NhVerbs(p) # {}
         /\ NhmTerms(p - 1) # {}) =>
            /\ \A t \in NhVerbs(p) : scores[p].sc[t] = WithoutMarker(p)[t] + 4
            /\ \A pt \in NhmTerms(p - 1) :
                  scores[p - 1].sc[pt] = ScoresUpTo(p - 1)[p - 1].sc[pt] + 2

\* C8: for the absent forest go_with_score returns (None, 0) and go returns None, and
\* no pass runs: no candidate set, token, score or navigator state comes to exist.
C8_AbsentForestNeutral ==
    forest.root = None =>
        /\ pc \in {"start", "done"}
        /\ finals = [p \in Positions |-> {}]
        /\ tokens = <<>>
        /\ scores = <<>>
        /\ stack = <<>>
        /\ visited = <<>>
        /\ pc = "done" => (result = <<None, 0>> /\ go(result) = None)

\* C8 witness: go_with_score has returned for the absent forest
C8_Witness == forest.root = None /\ pc = "done"

\* The largest score that VerbObjects.SCORES has for a verb meaning of the token and
\* the case signature of t; 0 when it has none
MaxVerbCaseScore(t, tok) ==
    LET found == {SCORES[<<tok.t2[k].stofn, verb_cases(t)>>] :
                    k \in {j \in 1..Len(tok.t2) :
                            /\ tok.t2[j].ordfl = "so"
                            /\ <<tok.t2[j].stofn, verb_cases(t)>> \in DOMAIN SCORES}}
    IN  IF found = {} THEN 0 ELSE Max(found)

\* The score of the verb terminal t at position p if the verb-case bonus in it were
\* that maximum
ScoreWithMaxBonus(p, t) ==
    apply_preferences(finals[p], tokens[p].lower, [u \in finals[p] |-> 0])[t]
        + so_score(t, p, finals[p], tokens[p], finals)
        - verb_case_score(t, tokens[p])
        + MaxVerbCaseScore(t, tokens[p])

\* C10: for a scored verb terminal with an argument count, the verb-case bonus in its
\* score is the maximum of the entries of the score table over the token's verb meanings.
C10_MaxVerbCaseBonus ==
    \A p \in DOMAIN scores :
        \A t \in finals[p] :
            (/\ Cardinality(finals[p]) > 1
             /\ t.first = "so"
             /\ variant(t, 0) \in {"0", "1", "2"}) =>
                scores[p].sc[t] = ScoreWithMaxBonus(p, t)

\* The candidates at position p that trigger the numeral rule, and those it aims at
NumeralTerms(p) == {t \in finals[p] : t.first \in {"tala", "tol"}}
GenitiveTerms(p) == {t \in finals[p] : t.first \in {"no", "tol"} /\ has_variant(t, "ef")}

\* The score of a noun or numeral terminal t at position p before the numeral rule:
\* the preference adjustments and, for a noun, the singular or abbreviation heuristic
ScoreBeforeNumeralRule(p, t) ==
    apply_preferences(finals[p], tokens[p].lower, [u \in finals[p] |-> 0])[t]
        + (IF t.first = "no"
           THEN (IF is_singular(t) THEN 1 ELSE IF is_abbrev(t) THEN -1 ELSE 0)
           ELSE 0)

\* C11: at a scored ambiguous position with a numeral terminal among its candidates, each
\* noun or numeral terminal with the genitive variant has lost exactly 1 to the numeral
\* rule, however many numeral terminals the candidates hold.
C11_GenitiveMinusOneOnce ==
    \A p \in DOMAIN scores :
        (Cardinality(finals[p]) > 1 /\ NumeralTerms(p) # {}) =>
            \A t \in GenitiveTerms(p) : scores[p].sc[t] = ScoreBeforeNumeralRule(p, t) - 1

\* The -2 * factor values that the triples of the token at p hold for t as the worse
\* terminal, and the +6 * factor (t quoted) or +4 * factor values for t as the better one
WorseValues(p, t) ==
    LET prefs == PreferencesGet(tokens[p].lower)
    IN  {-2 * prefs[k].factor :
            k \in {j \in 1..Len(prefs) :
                    /\ t.first \in prefs[j].worse
                    /\ \E bt \in finals[p] \ {t} : bt.first \in prefs[j].better}}

BetterValues(p, t) ==
    LET prefs == PreferencesGet(tokens[p].lower)
    IN  {(IF t.name0 \in {"\"", "'"} THEN 6 ELSE 4) * prefs[k].factor :
            k \in {j \in 1..Len(prefs) :
                    /\ t.first \in prefs[j].better
                    /\ \E wt \in finals[p] \ {t} : wt.first \in prefs[j].worse}}

\* The preference adjustment of terminal t at position p as the specification has it
PreferenceAdjustment(p, t) ==
    IF \A u \in finals[p] : u.first = t.first THEN 0
    ELSE (IF WorseValues(p, t) = {} THEN 0 ELSE Min(WorseValues(p, t)))
       + (IF BetterValues(p, t) = {} THEN 0 ELSE Max(BetterValues(p, t)))

\* What the heuristics alone give the candidates of position p, in the order of its keys
HeuristicScores(p) ==
    heuristics_loop(1, scores[p].keys,
                    [sc |-> [u \in finals[p] |-> 0], prev |-> InitScores(<<>>)],
                    p, tokens[p], finals, forest.start).sc

\* C12: when the loop has just scored an ambiguous position, the score of each candidate
\* is what the heuristics give it plus, once, its preference adjustment: the minimum of
\* the -2 * factor values as a worse terminal plus the maximum of the +6 * factor (quoted)
\* or +4 * factor values as a better one, and nothing when all candidates share a category.
C12_PreferenceMinMax ==
    (pc = "score" /\ (i - 1) \in DOMAIN scores /\ Cardinality(finals[i - 1]) > 1) =>
        \A t \in finals[i - 1] :
            scores[i - 1].sc[t] = HeuristicScores(i - 1)[t] + PreferenceAdjustment(i - 1, t)

\* C12 witness: a position was just scored where two triples of different factor match
\* the same pair of a worse and a better terminal
C12_Witness ==
    /\ pc = "score"
    /\ (i - 1) \in DOMAIN scores
    /\ \E wt, bt \in finals[i - 1] :
          /\ Cardinality(WorseValues(i - 1, wt)) > 1
          /\ Cardinality(BetterValues(i - 1, bt)) > 1
          /\ scores[i - 1].sc[wt] < HeuristicScores(i - 1)[wt]
          /\ scores[i - 1].sc[bt] > HeuristicScores(i - 1)[bt]

NoDiffPrio == \A n \in DOMAIN forest.nodes : ~DiffPrio(n)

\* The scores of the derivation trees below node n of the original forest: one family is
\* chosen at every reference to a nonterminal node, and the tree's score is the sum of
\* its token scores and of the adjustments of its completed nonterminals
RECURSIVE TreeScores(_), ChildrenScores(_)
ChildrenScores(ch) ==
    IF ch = <<>> THEN {0}
    ELSE {a + b : a \in TreeScores(Head(ch)), b \in ChildrenScores(Tail(ch))}

TreeScores(n) ==
    IF n = None THEN {0}
    ELSE IF Node(n).is_token THEN {TokenScore(n)}
    ELSE {v + NodeAdj(n) :
            v \in UNION {ChildrenScores(OrigFamilies(n)[k].children) :
                            k \in 1..Len(OrigFamilies(n))}}

\* The score of the tree that is left below node n after reduction
RECURSIVE SurvivingScore(_)
SurvivingScore(n) ==
    IF n = None THEN 0
    ELSE IF Node(n).is_token THEN TokenScore(n)
    ELSE SumSeq([j \in 1..Len(families[n][1].children) |->
                    SurvivingScore(families[n][1].children[j])]) + NodeAdj(n)

\* C13: when no nonterminal node has families of differing priority, the root score that
\* go_with_score returns is the maximum of the scores of the derivation trees of the
\* original forest, and the tree left after reduction has that score.
C13_RootScoreIsMaximum ==
    (pc = "done" /\ forest.root # None /\ NoDiffPrio) =>
        /\ result[2] = Max(TreeScores(forest.root))
        /\ SurvivingScore(forest.root) = result[2]

\* C13 witness: a finished reduction, without differing priorities, of a forest whose
\* derivation trees differ in score and in which a nonterminal node with several families
\* is referred to more than once
C13_Witness ==
    /\ pc = "done"
    /\ forest.root # None
    /\ NoDiffPrio
    /\ Cardinality(TreeScores(forest.root)) > 2
    /\ \E n, m \in ReachableNT :
          /\ n # m
          /\ Len(OrigFamilies(n)) > 1
          /\ \E k \in 1..Len(OrigFamilies(m)) : OrigFamilies(m)[k].children = <<n, n>>

\* C14: against the unchanging database, every list in the cache of meanings is the rows
\* of its word plus the additional meanings, whatever lookup_word calls were made, and a
\* lookup_word call returns what the first call with the same arguments returned.
C14_CacheNeverMutated ==
    /\ \A k \in 1..Len(cache) : cache[k].val = db_meanings(cache[k].w)
    /\ last_call.args \in DOMAIN seen => last_call.ret = seen[last_call.args]

====
